---- MODULE Spec2Model ----
(***************************************************************************)
(* A model of the command-line address book of src/main.py: the field      *)
(* validators, Record, AddressBook, the command handlers behind            *)
(* input_error, pickle persistence and the dispatch loop of main().        *)
(*                                                                         *)
(* A Python str is a sequence of one-character strings, so that isdigit,   *)
(* strptime, strftime, lower and split are computed character by           *)
(* character.  The fixed messages of the program are kept as one element.  *)
(***************************************************************************)
EXTENDS Integers, Sequences, FiniteSets, TLC

VARIABLES pc, book, file, last, command, args, out, prev, upcoming, today,
          reads, writes, sessions

vars == <<pc, book, file, last, command, args, out, prev, upcoming, today,
          reads, writes, sessions>>

(***************************************************************************)
(* Characters and str methods                                              *)
(***************************************************************************)
AsciiDigits == <<"0", "1", "2", "3", "4", "5", "6", "7", "8", "9">>

DecimalDigitChars == {AsciiDigits[i] : i \in 1..10}

\* U+00B2 SUPERSCRIPT TWO: Numeric_Type=Digit, so str.isdigit() is True for
\* it, although it is no decimal digit (str.isdecimal() is False).
SuperscriptTwo == "^2"

\* the characters c for which c.isdigit() holds, among those the model uses
IsDigitChar(c) == c \in DecimalDigitChars \cup {SuperscriptTwo}

\* str.isdigit(): every character is a digit and there is at least one
StrIsDigit(s) == Len(s) > 0 /\ \A i \in 1..Len(s) : IsDigitChar(s[i])

DigitValue(c) == CHOOSE v \in 0..9 : AsciiDigits[v + 1] = c

DigitChar(v) == AsciiDigits[v + 1]

UpperChars == <<"A", "B", "C", "D", "E", "H", "I", "L", "O", "S", "T", "X", "Y">>

LowerChars == <<"a", "b", "c", "d", "e", "h", "i", "l", "o", "s", "t", "x", "y">>

LowerChar(c) ==
    IF \E i \in 1..Len(UpperChars) : UpperChars[i] = c
    THEN LowerChars[CHOOSE i \in 1..Len(UpperChars) : UpperChars[i] = c]
    ELSE c

\* str.lower()
StrLower(s) == [i \in 1..Len(s) |-> LowerChar(s[i])]

IsSpaceChar(c) == c = " "

\* str.strip().split(): the maximal runs of non-whitespace characters
RECURSIVE SplitFrom(_, _, _, _)
SplitFrom(s, i, cur, acc) ==
    IF i > Len(s)
    THEN IF cur = <<>> THEN acc ELSE Append(acc, cur)
    ELSE IF IsSpaceChar(s[i])
         THEN SplitFrom(s, i + 1, <<>>, IF cur = <<>> THEN acc ELSE Append(acc, cur))
         ELSE SplitFrom(s, i + 1, Append(cur, s[i]), acc)

StrSplit(s) == SplitFrom(s, 1, <<>>, <<>>)

\* sep.join(parts)
RECURSIVE StrJoin(_, _)
StrJoin(sep, parts) ==
    IF parts = <<>> THEN <<>>
    ELSE IF Len(parts) = 1 THEN parts[1]
    ELSE parts[1] \o sep \o StrJoin(sep, Tail(parts))

StartsWith(s, p) == Len(s) >= Len(p) /\ SubSeq(s, 1, Len(p)) = p

(***************************************************************************)
(* datetime.date                                                           *)
(***************************************************************************)
IsLeap(y) == y % 4 = 0 /\ (y % 100 # 0 \/ y % 400 = 0)

DaysInMonth(y, m) ==
    IF m = 2 THEN (IF IsLeap(y) THEN 29 ELSE 28)
    ELSE IF m \in {4, 6, 9, 11} THEN 30 ELSE 31

DaysBeforeYear(y) ==
    LET p == y - 1 IN p * 365 + (p \div 4) - (p \div 100) + (p \div 400)

RECURSIVE DaysBeforeMonth(_, _)
DaysBeforeMonth(y, m) ==
    IF m = 1 THEN 0 ELSE DaysBeforeMonth(y, m - 1) + DaysInMonth(y, m - 1)

Date(y, m, d) == [year |-> y, month |-> m, day |-> d]

\* the check of the date constructor
DateValid(y, m, d) ==
    /\ 1 <= y /\ y <= 9999
    /\ 1 <= m /\ m <= 12
    /\ 1 <= d /\ d <= DaysInMonth(y, m)

\* date.toordinal()
ToOrdinal(dt) == DaysBeforeYear(dt.year) + DaysBeforeMonth(dt.year, dt.month) + dt.day

\* date.weekday(): Monday is 0, Saturday 5, Sunday 6
Weekday(dt) == (ToOrdinal(dt) + 6) % 7

\* date < date
DateLess(a, b) == ToOrdinal(a) < ToOrdinal(b)

NextDay(dt) ==
    IF dt.day < DaysInMonth(dt.year, dt.month) THEN Date(dt.year, dt.month, dt.day + 1)
    ELSE IF dt.month < 12 THEN Date(dt.year, dt.month + 1, 1)
    ELSE Date(dt.year + 1, 1, 1)

\* date + timedelta(days=n), n >= 0
RECURSIVE AddDays(_, _)
AddDays(dt, n) == IF n = 0 THEN dt ELSE AddDays(NextDay(dt), n - 1)

\* date.strftime("%d.%m.%Y")
Strftime(dt) ==
    << DigitChar(dt.day \div 10), DigitChar(dt.day % 10), ".",
       DigitChar(dt.month \div 10), DigitChar(dt.month % 10), ".",
       DigitChar(dt.year \div 1000), DigitChar((dt.year \div 100) % 10),
       DigitChar((dt.year \div 10) % 10), DigitChar(dt.year % 10) >>

(***************************************************************************)
(* datetime.strptime(value, "%d.%m.%Y"): the format compiles to            *)
(*   (3[0-1]|[1-2]\d|0[1-9]|[1-9]| [1-9])\.(1[0-2]|0[1-9]|[1-9])\.(\d\d\d\d) *)
(* matched at the start of the string, nothing may remain after the match, *)
(* and the three numbers must make a date.                                 *)
(***************************************************************************)
RECURSIVE FieldsFrom(_, _, _, _)
FieldsFrom(s, i, cur, acc) ==
    IF i > Len(s) THEN Append(acc, cur)
    ELSE IF s[i] = "." THEN FieldsFrom(s, i + 1, <<>>, Append(acc, cur))
    ELSE FieldsFrom(s, i + 1, Append(cur, s[i]), acc)

DotFields(s) == FieldsFrom(s, 1, <<>>, <<>>)

IsDec(c) == c \in DecimalDigitChars

NonZeroDec(c) == IsDec(c) /\ c # "0"

\* %d
DayFieldMatches(f) ==
    \/ Len(f) = 2 /\ f[1] = "3" /\ f[2] \in {"0", "1"}
    \/ Len(f) = 2 /\ f[1] \in {"1", "2"} /\ IsDec(f[2])
    \/ Len(f) = 2 /\ f[1] = "0" /\ NonZeroDec(f[2])
    \/ Len(f) = 1 /\ NonZeroDec(f[1])
    \/ Len(f) = 2 /\ f[1] = " " /\ NonZeroDec(f[2])

\* %m
MonthFieldMatches(f) ==
    \/ Len(f) = 2 /\ f[1] = "1" /\ f[2] \in {"0", "1", "2"}
    \/ Len(f) = 2 /\ f[1] = "0" /\ NonZeroDec(f[2])
    \/ Len(f) = 1 /\ NonZeroDec(f[1])

\* %Y
YearFieldMatches(f) == Len(f) = 4 /\ \A i \in 1..4 : IsDec(f[i])

\* int() of a matched field
RECURSIVE FieldInt(_)
FieldInt(f) ==
    IF f = <<>> THEN 0
    ELSE IF f[Len(f)] = " " THEN 0
    ELSE 10 * FieldInt(SubSeq(f, 1, Len(f) - 1)) + DigitValue(f[Len(f)])

NoDate == [ok |-> FALSE, date |-> Date(0, 0, 0)]

Strptime(s) ==
    LET f == DotFields(s) IN
    IF /\ Len(f) = 3
       /\ DayFieldMatches(f[1])
       /\ MonthFieldMatches(f[2])
       /\ YearFieldMatches(f[3])
       /\ DateValid(FieldInt(f[3]), FieldInt(f[2]), FieldInt(f[1]))
    THEN [ok |-> TRUE, date |-> Date(FieldInt(f[3]), FieldInt(f[2]), FieldInt(f[1]))]
    ELSE NoDate

(***************************************************************************)
(* Field validators (Phone, Birthday), Record and AddressBook              *)
(***************************************************************************)
PhoneLen == 10

\* Phone.__init__ returns normally
PhoneAccepts(value) == StrIsDigit(value) /\ Len(value) = PhoneLen

\* Birthday.__init__ returns normally
BirthdayAccepts(value) == Strptime(value).ok

\* Record.__init__: birthday is <<>> for None and <<value>> once set
Record(name) == [name |-> name, phones |-> <<>>, birthday |-> <<>>]

\* A call either returns or raises; a raise names the exception class and
\* carries str(e).  rec is the Record as the call leaves it.
RecReturn(rec) == [exc |-> "none", msg |-> <<>>, rec |-> rec]

RecRaise(cls, msg, rec) == [exc |-> cls, msg |-> msg, rec |-> rec]

MsgPhone == <<"Phone number must be 10 digits.">>

MsgBirthday == <<"Birthday must be in DD.MM.YYYY format.">>

MsgOldPhone == <<"Old phone number not found.">>

\* Record.add_phone
add_phone(rec, phone) ==
    IF PhoneAccepts(phone)
    THEN RecReturn([rec EXCEPT !.phones = Append(@, phone)])
    ELSE RecRaise("ValueError", MsgPhone, rec)

\* the first index whose phone equals old_phone, 0 when there is none
FirstIndex(phones, old_phone) ==
    IF \E i \in 1..Len(phones) : phones[i] = old_phone
    THEN CHOOSE i \in 1..Len(phones) :
            /\ phones[i] = old_phone
            /\ \A j \in 1..(i - 1) : phones[j] # old_phone
    ELSE 0

\* change_phone without the return of line 38: every phone equal to
\* old_phone is replaced
change_phone_all(rec, old_phone, new_phone) ==
    IF FirstIndex(rec.phones, old_phone) = 0 THEN RecRaise("ValueError", MsgOldPhone, rec)
    ELSE IF PhoneAccepts(new_phone)
         THEN RecReturn([rec EXCEPT !.phones =
                 [i \in 1..Len(rec.phones) |->
                     IF rec.phones[i] = old_phone THEN new_phone ELSE rec.phones[i]]])
         ELSE RecRaise("ValueError", MsgPhone, rec)

\* Record.change_phone
change_phone(rec, old_phone, new_phone) ==
    LET i == FirstIndex(rec.phones, old_phone) IN
    IF i = 0 THEN RecRaise("ValueError", MsgOldPhone, rec)
    ELSE IF PhoneAccepts(new_phone)
         THEN RecReturn([rec EXCEPT !.phones[i] = new_phone])
         ELSE RecRaise("ValueError", MsgPhone, rec)

\* Record.add_birthday
add_birthday(rec, birthday) ==
    IF BirthdayAccepts(birthday)
    THEN RecReturn([rec EXCEPT !.birthday = <<birthday>>])
    ELSE RecRaise("ValueError", MsgBirthday, rec)

\* Record.__str__
Record_str(rec) ==
    rec.name \o <<":", " ">>
    \o (IF rec.phones # <<>> THEN StrJoin(<<",", " ">>, rec.phones) ELSE <<"No phones">>)
    \o <<", Birthday: ">>
    \o (IF rec.birthday # <<>> THEN rec.birthday[1] ELSE <<"No birthday">>)

\* AddressBook is a dict: a sequence of records in insertion order, one per key
EmptyBook == <<>>

HasKey(b, name) == \E i \in 1..Len(b) : b[i].name = name

IndexOf(b, name) == CHOOSE i \in 1..Len(b) : b[i].name = name

\* book.get(name), for a key that is present
Get(b, name) == b[IndexOf(b, name)]

\* AddressBook.add_record: self[record.name.value] = record
add_record(b, rec) ==
    IF HasKey(b, rec.name) THEN [b EXCEPT ![IndexOf(b, rec.name)] = rec]
    ELSE Append(b, rec)

(***************************************************************************)
(* AddressBook.get_upcoming_birthdays                                      *)
(***************************************************************************)
WindowDays == 7

Saturday == 5

\* date.replace(year=y) raises ValueError when the day does not exist in y
ReplaceYearOk(dt, y) == DateValid(y, dt.month, dt.day)

ReplaceYear(dt, y) == Date(y, dt.month, dt.day)

\* the weekend shift with 6 in place of 7
congrats_date_short_shift(bday_this_year) ==
    IF Weekday(bday_this_year) >= Saturday
    THEN AddDays(bday_this_year, 6 - Weekday(bday_this_year))
    ELSE bday_this_year

\* the weekend shift of lines 64-66
congrats_date(bday_this_year) ==
    IF Weekday(bday_this_year) >= Saturday
    THEN AddDays(bday_this_year, 7 - Weekday(bday_this_year))
    ELSE bday_this_year

MsgDayRange == <<"day is out of range for month">>

\* One turn of the loop of lines 56-67 for a record that has a birthday:
\* the pairs it appends (none or one), or the ValueError of a replace().
BirthdayTurn(rec, tdy) ==
    LET bday == Strptime(rec.birthday[1]).date IN
    IF ~ReplaceYearOk(bday, tdy.year)
    THEN [exc |-> "ValueError", pairs |-> <<>>]
    ELSE LET this_year == ReplaceYear(bday, tdy.year)
             passed    == DateLess(this_year, tdy)
         IN IF passed /\ ~ReplaceYearOk(this_year, tdy.year + 1)
            THEN [exc |-> "ValueError", pairs |-> <<>>]
            ELSE LET bday_this_year ==
                        IF passed THEN ReplaceYear(this_year, tdy.year + 1) ELSE this_year
                     delta == ToOrdinal(bday_this_year) - ToOrdinal(tdy)
                 IN [exc |-> "none",
                     pairs |-> IF delta <= WindowDays
                               THEN << [name |-> rec.name,
                                        date |-> Strftime(congrats_date(bday_this_year))] >>
                               ELSE <<>>]

RECURSIVE UpcomingFrom(_, _, _, _)
UpcomingFrom(b, tdy, i, acc) ==
    IF i > Len(b) THEN [exc |-> "none", msg |-> <<>>, list |-> acc]
    ELSE IF b[i].birthday = <<>> THEN UpcomingFrom(b, tdy, i + 1, acc)
    ELSE LET t == BirthdayTurn(b[i], tdy) IN
         IF t.exc # "none" THEN [exc |-> t.exc, msg |-> MsgDayRange, list |-> <<>>]
         ELSE UpcomingFrom(b, tdy, i + 1, acc \o t.pairs)

get_upcoming_birthdays(b, tdy) == UpcomingFrom(b, tdy, 1, <<>>)

(***************************************************************************)
(* The command handlers and the input_error decorator.  A handler call     *)
(* returns text or raises; book is the Directory as the call leaves it.    *)
(***************************************************************************)
Return(text, b) == [exc |-> "none", text |-> text, book |-> b]

Raise(cls, msg, b) == [exc |-> cls, text |-> msg, book |-> b]

ErrorPrefix == <<"E", "r", "r", "o", "r", ":", " ">>

\* the exception classes input_error catches
CaughtExceptions == {"KeyError", "ValueError", "IndexError", "AttributeError"}

\* input_error.wrapper
input_error(r) ==
    IF r.exc \in CaughtExceptions THEN Return(ErrorPrefix \o r.text, r.book) ELSE r

MsgTooFew == <<"not enough values to unpack">>

MsgTooMany == <<"too many values to unpack">>

MsgNoneType == <<"'NoneType' object has no attribute">>

MsgIndex == <<"list index out of range">>

\* a, b = args  /  a, b, c = args
UnpackMsg(a, n) == IF Len(a) < n THEN MsgTooFew ELSE MsgTooMany

\* add_contact, undecorated
add_contact_body(a, b) ==
    IF Len(a) # 2 THEN Raise("ValueError", UnpackMsg(a, 2), b)
    ELSE LET name == a[1]
             phone == a[2]
             r == add_phone(IF HasKey(b, name) THEN Get(b, name) ELSE Record(name), phone)
         IN IF r.exc # "none" THEN Raise(r.exc, r.msg, b)
            ELSE Return(<<"Contact ">> \o name \o <<" updated.">>, add_record(b, r.rec))

\* change_contact, undecorated
change_contact_body(a, b) ==
    IF Len(a) # 3 THEN Raise("ValueError", UnpackMsg(a, 3), b)
    ELSE LET name == a[1] IN
         IF ~HasKey(b, name) THEN Raise("AttributeError", MsgNoneType, b)
         ELSE LET r == change_phone(Get(b, name), a[2], a[3]) IN
              IF r.exc # "none" THEN Raise(r.exc, r.msg, b)
              ELSE Return(<<"Phone number for ">> \o name \o <<" updated.">>,
                          add_record(b, r.rec))

\* show_phone, undecorated
show_phone_body(a, b) ==
    IF Len(a) = 0 THEN Raise("IndexError", MsgIndex, b)
    ELSE LET name == a[1] IN
         IF ~HasKey(b, name) THEN Raise("AttributeError", MsgNoneType, b)
         ELSE Return(name \o <<":", " ">> \o StrJoin(<<",", " ">>, Get(b, name).phones), b)

\* show_all, undecorated
show_all_body(b) ==
    Return(StrJoin(<<"\n">>, [i \in 1..Len(b) |-> Record_str(b[i])]), b)

\* add_birthday_handler, undecorated: the Record is put into the book
\* (line 113) before the birthday is validated (line 114)
add_birthday_handler_body(a, b) ==
    IF Len(a) # 2 THEN Raise("ValueError", UnpackMsg(a, 2), b)
    ELSE LET name == a[1]
             b1 == IF HasKey(b, name) THEN b ELSE add_record(b, Record(name))
             r == add_birthday(Get(b1, name), a[2])
         IN IF r.exc # "none" THEN Raise(r.exc, r.msg, b1)
            ELSE Return(<<"Birthday added for ">> \o name \o <<".">>, add_record(b1, r.rec))

\* show_birthday, undecorated
show_birthday_body(a, b) ==
    IF Len(a) = 0 THEN Raise("IndexError", MsgIndex, b)
    ELSE LET name == a[1] IN
         IF ~HasKey(b, name) THEN Raise("AttributeError", MsgNoneType, b)
         ELSE IF Get(b, name).birthday # <<>>
              THEN Return(name \o <<"'s birthday: ">> \o Get(b, name).birthday[1], b)
              ELSE Return(<<"No birthday set for ">> \o name \o <<".">>, b)

PairStr(p) == p.name \o <<":", " ">> \o p.date

\* upcoming_birthdays, undecorated
upcoming_birthdays_body(b, tdy) ==
    LET u == get_upcoming_birthdays(b, tdy) IN
    IF u.exc # "none" THEN Raise(u.exc, u.msg, b)
    ELSE IF u.list = <<>> THEN Return(<<"No upcoming birthdays.">>, b)
    ELSE Return(StrJoin(<<"\n">>, [i \in 1..Len(u.list) |-> PairStr(u.list[i])]), b)

add_contact(a, b) == input_error(add_contact_body(a, b))

change_contact(a, b) == input_error(change_contact_body(a, b))

show_phone(a, b) == input_error(show_phone_body(a, b))

show_all(b) == input_error(show_all_body(b))

add_birthday_handler(a, b) == input_error(add_birthday_handler_body(a, b))

show_birthday(a, b) == input_error(show_birthday_body(a, b))

upcoming_birthdays(b, tdy) == input_error(upcoming_birthdays_body(b, tdy))

(***************************************************************************)
(* Persistence: pickle.dump writes the object graph as a stream of         *)
(* opcodes, pickle.load replays the stream.                                *)
(***************************************************************************)
Op(code, arg) == [op |-> code, arg |-> arg]

\* a dump that loses the birthday
RecordOpsNoBirthday(rec) ==
    <<Op("NAME", rec.name)>>
    \o [i \in 1..Len(rec.phones) |-> Op("PHONE", rec.phones[i])]
    \o <<Op("NONE", <<>>), Op("SETITEM", <<>>)>>

RecordOps(rec) ==
    <<Op("NAME", rec.name)>>
    \o [i \in 1..Len(rec.phones) |-> Op("PHONE", rec.phones[i])]
    \o <<IF rec.birthday = <<>> THEN Op("NONE", <<>>) ELSE Op("BIRTHDAY", rec.birthday[1])>>
    \o <<Op("SETITEM", <<>>)>>

RECURSIVE PickleDump(_)
PickleDump(b) == IF b = <<>> THEN <<>> ELSE RecordOps(Head(b)) \o PickleDump(Tail(b))

RECURSIVE PickleLoadFrom(_, _, _, _)
PickleLoadFrom(ops, i, cur, acc) ==
    IF i > Len(ops) THEN acc
    ELSE LET o == ops[i] IN
         IF o.op = "NAME" THEN PickleLoadFrom(ops, i + 1, Record(o.arg), acc)
         ELSE IF o.op = "PHONE"
              THEN PickleLoadFrom(ops, i + 1, [cur EXCEPT !.phones = Append(@, o.arg)], acc)
         ELSE IF o.op = "BIRTHDAY"
              THEN PickleLoadFrom(ops, i + 1, [cur EXCEPT !.birthday = <<o.arg>>], acc)
         ELSE IF o.op = "NONE"
              THEN PickleLoadFrom(ops, i + 1, [cur EXCEPT !.birthday = <<>>], acc)
         ELSE PickleLoadFrom(ops, i + 1, cur, add_record(acc, cur))

PickleLoad(ops) == PickleLoadFrom(ops, 1, Record(<<>>), EmptyBook)

NoFile == [exists |-> FALSE, data |-> <<>>]

\* save_data: the returned value is the file's new contents
save_data(b) == [exists |-> TRUE, data |-> PickleDump(b)]

\* load_data
load_data(f) == IF f.exists THEN PickleLoad(f.data) ELSE EmptyBook

(***************************************************************************)
(* main(): the dispatch loop                                               *)
(***************************************************************************)
WAdd == <<"a", "d", "d">>

WChange == <<"c", "h", "a", "n", "g", "e">>

WPhone == <<"p", "h", "o", "n", "e">>

WAll == <<"a", "l", "l">>

WAddBirthday == <<"a", "d", "d", "-", "b", "i", "r", "t", "h", "d", "a", "y">>

WShowBirthday == <<"s", "h", "o", "w", "-", "b", "i", "r", "t", "h", "d", "a", "y">>

WBirthdays == <<"b", "i", "r", "t", "h", "d", "a", "y", "s">>

WHello == <<"h", "e", "l", "l", "o">>

WClose == <<"c", "l", "o", "s", "e">>

WExit == <<"e", "x", "i", "t">>

\* the keys of the commands dict of lines 146-154
commands == {WAdd, WChange, WPhone, WAll, WAddBirthday, WShowBirthday, WBirthdays}

ExitCommands == {WClose, WExit}

MsgGreeting == <<"Hello! I am your assistant bot.">>

MsgGoodbye == <<"Goodbye!">>

MsgHelp == <<"How can I help you?">>

MsgUnknown == <<"Unknown command. Try again.">>

NoToday == Date(0, 0, 0)

NoUpcoming == [exc |-> "none", list |-> <<>>]

\* commands[command] applied as lines 171-175 apply it
CallHandler(cmd, a, b, tdy) ==
    IF cmd = WAll THEN show_all(b)
    ELSE IF cmd = WBirthdays THEN upcoming_birthdays(b, tdy)
    ELSE IF cmd = WAdd THEN add_contact(a, b)
    ELSE IF cmd = WChange THEN change_contact(a, b)
    ELSE IF cmd = WPhone THEN show_phone(a, b)
    ELSE IF cmd = WAddBirthday THEN add_birthday_handler(a, b)
    ELSE show_birthday(a, b)

\* lines 158-162: the line is split into tokens; unless there is none, the
\* first token is lower-cased into the command and the rest are its args
ReadLine(line) ==
    LET user_input == StrSplit(line) IN
    IF user_input = <<>> THEN [blank |-> TRUE, command |-> <<>>, args |-> <<>>]
    ELSE [blank |-> FALSE, command |-> StrLower(user_input[1]), args |-> Tail(user_input)]

\* no phone list is longer than cap (the model's bound on a Record's growth)
PhonesWithin(b, cap) == \A i \in 1..Len(b) : Len(b[i].phones) <= cap

\* what the model remembers of a finished handler call: the locals of
\* get_upcoming_birthdays
Locals(cmd, b, tdy) ==
    IF cmd = WBirthdays
    THEN LET u == get_upcoming_birthdays(b, tdy) IN
         [today |-> tdy, upcoming |-> [exc |-> u.exc, list |-> u.list]]
    ELSE [today |-> NoToday, upcoming |-> NoUpcoming]

\* lines 144 and 156: the process starts, loads the book and greets
Start ==
    /\ pc = "start"
    /\ book' = load_data(file)
    /\ reads' = reads + 1
    /\ out' = MsgGreeting
    /\ pc' = "awaiting"
    /\ last' = "start"
    /\ command' = <<>>
    /\ args' = <<>>
    /\ today' = NoToday
    /\ upcoming' = NoUpcoming
    /\ UNCHANGED <<file, prev, writes, sessions>>

\* lines 158-160: an empty line, nothing is printed
Blank(inp) ==
    /\ pc = "awaiting"
    /\ inp.blank
    /\ last' = "blank"
    /\ command' = <<>>
    /\ args' = <<>>
    /\ out' = <<>>
    /\ prev' = book
    /\ today' = NoToday
    /\ upcoming' = NoUpcoming
    /\ UNCHANGED <<pc, book, file, reads, writes, sessions>>

\* close or exit that leaves without save_data
QuitWithoutSave(inp) ==
    /\ pc = "awaiting"
    /\ ~inp.blank
    /\ inp.command \in ExitCommands
    /\ out' = MsgGoodbye
    /\ pc' = "done"
    /\ last' = "quit"
    /\ command' = inp.command
    /\ args' = inp.args
    /\ prev' = book
    /\ today' = NoToday
    /\ upcoming' = NoUpcoming
    /\ UNCHANGED <<book, file, writes, reads, sessions>>

\* lines 164-167: close or exit
Quit(inp) ==
    /\ pc = "awaiting"
    /\ ~inp.blank
    /\ inp.command \in ExitCommands
    /\ file' = save_data(book)
    /\ writes' = writes + 1
    /\ out' = MsgGoodbye
    /\ pc' = "done"
    /\ last' = "quit"
    /\ command' = inp.command
    /\ args' = inp.args
    /\ prev' = book
    /\ today' = NoToday
    /\ upcoming' = NoUpcoming
    /\ UNCHANGED <<book, reads, sessions>>

\* lines 168-169
Hello(inp) ==
    /\ pc = "awaiting"
    /\ ~inp.blank
    /\ inp.command \notin ExitCommands
    /\ inp.command = WHello
    /\ out' = MsgHelp
    /\ last' = "hello"
    /\ command' = inp.command
    /\ args' = inp.args
    /\ prev' = book
    /\ today' = NoToday
    /\ upcoming' = NoUpcoming
    /\ UNCHANGED <<pc, book, file, reads, writes, sessions>>

\* lines 170-175: a handler is called and its result printed; an exception
\* that input_error does not catch ends the process with a traceback
Handle(inp, tdy, cap) ==
    /\ pc = "awaiting"
    /\ ~inp.blank
    /\ inp.command \notin ExitCommands
    /\ inp.command # WHello
    /\ inp.command \in commands
    /\ LET r == CallHandler(inp.command, inp.args, book, tdy) IN
         /\ PhonesWithin(r.book, cap)
         /\ book' = r.book
         /\ out' = r.text
         /\ pc' = IF r.exc = "none" THEN "awaiting" ELSE "crashed"
    /\ last' = "handler"
    /\ command' = inp.command
    /\ args' = inp.args
    /\ prev' = book
    /\ today' = Locals(inp.command, book, tdy).today
    /\ upcoming' = Locals(inp.command, book, tdy).upcoming
    /\ UNCHANGED <<file, reads, writes, sessions>>

\* an unknown word falling back to show_all, as commands.get(command,
\* show_all) would
UnknownShowsAll(inp) ==
    /\ pc = "awaiting"
    /\ ~inp.blank
    /\ inp.command \notin ExitCommands
    /\ inp.command # WHello
    /\ inp.command \notin commands
    /\ out' = show_all(book).text
    /\ last' = "unknown"
    /\ command' = inp.command
    /\ args' = inp.args
    /\ prev' = book
    /\ today' = NoToday
    /\ upcoming' = NoUpcoming
    /\ UNCHANGED <<pc, book, file, reads, writes, sessions>>

\* lines 176-177
Unknown(inp) ==
    /\ pc = "awaiting"
    /\ ~inp.blank
    /\ inp.command \notin ExitCommands
    /\ inp.command # WHello
    /\ inp.command \notin commands
    /\ out' = MsgUnknown
    /\ last' = "unknown"
    /\ command' = inp.command
    /\ args' = inp.args
    /\ prev' = book
    /\ today' = NoToday
    /\ upcoming' = NoUpcoming
    /\ UNCHANGED <<pc, book, file, reads, writes, sessions>>

MaxSessions == 2

\* the program is run again after a clean exit
Restart ==
    /\ pc = "done"
    /\ sessions < MaxSessions
    /\ sessions' = sessions + 1
    /\ pc' = "start"
    /\ reads' = 0
    /\ writes' = 0
    /\ last' = "restart"
    /\ command' = <<>>
    /\ args' = <<>>
    /\ out' = <<>>
    /\ today' = NoToday
    /\ upcoming' = NoUpcoming
    /\ book' = EmptyBook
    /\ UNCHANGED <<file, prev>>

(***************************************************************************)
(* The inputs: names, phones, birthdays, command words, lines and clocks   *)
(***************************************************************************)
Bob == <<"B", "o", "b">>

Ann == <<"A", "n", "n">>

P1 == <<"1", "1", "1", "1", "1", "1", "1", "1", "1", "1">>

P2 == <<"2", "2", "2", "2", "2", "2", "2", "2", "2", "2">>

P3 == <<"3", "3", "3", "3", "3", "3", "3", "3", "3", "3">>

PShort == <<"1", "2", "3", "4", "5", "6", "7", "8", "9">>

BOk == <<"1", "5", ".", "0", "6", ".", "1", "9", "9", "0">>

BUnpadded == <<"1", ".", "1", ".", "1", "9", "9", "0">>

BFeb31 == <<"3", "1", ".", "0", "2", ".", "2", "0", "0", "0">>

WExitUpper == <<"E", "X", "I", "T">>

WCloseMixed == <<"C", "l", "o", "s", "e">>

WAddUpper == <<"A", "D", "D">>

WList == <<"l", "i", "s", "t">>

WHelloMixed == <<"H", "e", "l", "l", "o">>

\* ten times U+00B2
PSup == [i \in 1..PhoneLen |-> SuperscriptTwo]

Names == {Bob, Ann}

\* a line as typed: the tokens separated by single spaces
Line(tokens) == StrJoin(<<" ">>, tokens)

\* the same with whitespace around and between the tokens
PaddedLine(tokens) == <<" ">> \o StrJoin(<<" ", " ">>, tokens) \o <<" ", " ">>

LinesOf(words, arglists) == {Line(<<w>> \o a) : w \in words, a \in arglists}

BlankLines == {<<>>, <<" ", " ">>}

MainPhones == {P1, PSup, PShort}

MainBirthdays == {BOk, BUnpadded, BFeb31}

MainLines ==
    BlankLines
    \cup LinesOf({WHello, WHelloMixed, WClose, WExitUpper, WList, WAll, WBirthdays},
                 {<<>>, <<Bob>>})
    \cup LinesOf({WPhone, WShowBirthday},
                 {<<>>, <<Bob, P1>>} \cup {<<n>> : n \in Names})
    \cup LinesOf({WAdd},
                 {<<>>, <<Bob>>, <<Bob, P1, P1>>}
                 \cup {<<n, p>> : n \in Names, p \in MainPhones})
    \cup LinesOf({WAddBirthday},
                 {<<>>, <<Bob>>, <<Bob, BOk, BOk>>}
                 \cup {<<n, d>> : n \in Names, d \in MainBirthdays})
    \cup LinesOf({WChange},
                 {<<>>, <<Bob>>, <<Bob, P1>>, <<Bob, P1, PSup, P1>>, <<Ann, P1, PSup>>}
                 \cup {<<Bob, o, p>> : o \in {P1, PSup}, p \in MainPhones})
    \cup {PaddedLine(<<WAddUpper, Ann, P1>>)}

MainTodays == {Date(2024, 6, 10)}

MainInputs == {ReadLine(line) : line \in MainLines}

\* the values datetime.today() takes while a line is handled
Clocks(inp, todays) == IF inp.command = WBirthdays THEN todays ELSE {NoToday}

MaxPhones == 1

InitWith(f) ==
    /\ pc = "start"
    /\ book = EmptyBook
    /\ file = f
    /\ last = "init"
    /\ command = <<>>
    /\ args = <<>>
    /\ out = <<>>
    /\ prev = EmptyBook
    /\ upcoming = NoUpcoming
    /\ today = NoToday
    /\ reads = 0
    /\ writes = 0
    /\ sessions = 1

\* one session over a Directory that starts empty
Init == InitWith(NoFile)

Next ==
    \/ Start
    \/ \E inp \in MainInputs : \E tdy \in Clocks(inp, MainTodays) :
          \/ Blank(inp)
          \/ Quit(inp)
          \/ Hello(inp)
          \/ Handle(inp, tdy, MaxPhones)
          \/ Unknown(inp)

Spec == Init /\ [][Next]_vars

(***************************************************************************)
(* Sessions: the program is run, left with close or exit, and run again    *)
(***************************************************************************)
SessionLines ==
    BlankLines
    \cup {Line(t) : t \in {<<WAdd, Bob, P1>>, <<WAdd, Ann, PSup>>, <<WAdd, Bob, PShort>>,
                           <<WChange, Bob, P1, P2>>, <<WPhone, Bob>>, <<WAll>>,
                           <<WAddBirthday, Bob, BOk>>, <<WAddBirthday, Ann, BUnpadded>>,
                           <<WAddBirthday, Ann, BFeb31>>, <<WShowBirthday, Bob>>,
                           <<WBirthdays>>, <<WHello>>, <<WList>>,
                           <<WClose>>, <<WCloseMixed>>, <<WExitUpper>>}}

SessionInputs == {ReadLine(line) : line \in SessionLines}

MaxSessionPhones == 1

NextSessions ==
    \/ Start
    \/ Restart
    \/ \E inp \in SessionInputs : \E tdy \in Clocks(inp, MainTodays) :
          \/ Blank(inp)
          \/ Quit(inp)
          \/ Hello(inp)
          \/ Handle(inp, tdy, MaxSessionPhones)
          \/ Unknown(inp)

SpecSessions == Init /\ [][NextSessions]_vars

(***************************************************************************)
(* One Record's phone list under add and change                            *)
(***************************************************************************)
RecordPhones == {P1, P2, P3, PShort}

RecordLines ==
    {Line(<<WAdd, Bob, p>>) : p \in RecordPhones}
    \cup {Line(<<WChange, Bob, o, p>>) : o \in {P1, P2, P3}, p \in RecordPhones}
    \cup {Line(<<WChange, Ann, P1, P2>>)}

RecordInputs == {ReadLine(line) : line \in RecordLines}

MaxRecordPhones == 3

NextRecord ==
    \/ Start
    \/ \E inp \in RecordInputs : Handle(inp, NoToday, MaxRecordPhones)

SpecRecord == Init /\ [][NextRecord]_vars

(***************************************************************************)
(* The birthdays command over Directories loaded from a snapshot, for      *)
(* birthdays around the middle of June, the turn of the year and the end   *)
(* of February, and clocks before each of them                             *)
(***************************************************************************)
BirthdayDates ==
    {Date(1990, 6, d) : d \in 9..19}
    \cup {Date(1985, 12, d) : d \in 28..31}
    \cup {Date(1990, 1, d) : d \in 1..6}
    \cup {Date(1990, 2, 28), Date(2000, 2, 29), Date(1990, 3, 1)}

BirthdayStrings == {Strftime(d) : d \in BirthdayDates}

WithBirthday(name, value) == [name |-> name, phones |-> <<>>, birthday |-> <<value>>]

\* Directories that add-birthday lines build: one or two Records
BirthdayBooks ==
    {<<WithBirthday(Bob, v)>> : v \in BirthdayStrings}
    \cup {<<WithBirthday(Bob, v), WithBirthday(Ann, w)>> :
              v \in BirthdayStrings, w \in {Strftime(Date(1990, 6, 15)),
                                            Strftime(Date(1990, 1, 1)),
                                            Strftime(Date(2000, 2, 29))}}
    \cup {<<WithBirthday(Bob, v), Record(Ann)>> : v \in BirthdayStrings}

BirthdayTodays ==
    {Date(2024, 6, 10), Date(2024, 6, 12), Date(2023, 12, 30), Date(2024, 12, 28),
     Date(2025, 2, 24), Date(2024, 2, 26), Date(2024, 3, 1)}

BirthdayInputs == {ReadLine(Line(<<WBirthdays>>))}

InitBirthdays == \E b \in BirthdayBooks : InitWith(save_data(b))

NextBirthdays ==
    \/ Start
    \/ \E inp \in BirthdayInputs : \E tdy \in BirthdayTodays : Handle(inp, tdy, MaxPhones)

SpecBirthdays == InitBirthdays /\ [][NextBirthdays]_vars

(***************************************************************************)
(* What the properties below speak of                                      *)
(***************************************************************************)
\* a string of exactly 10 decimal digits
TenDecimalDigits(p) == Len(p) = 10 /\ \A k \in 1..Len(p) : p[k] \in DecimalDigitChars

\* DD.MM.YYYY, zero-padded, denoting a real calendar date
PaddedRealDate(v) ==
    /\ Len(v) = 10
    /\ v[3] = "." /\ v[6] = "."
    /\ \A k \in {1, 2, 4, 5, 7, 8, 9, 10} : v[k] \in DecimalDigitChars
    /\ DateValid(1000 * DigitValue(v[7]) + 100 * DigitValue(v[8])
                   + 10 * DigitValue(v[9]) + DigitValue(v[10]),
                 10 * DigitValue(v[4]) + DigitValue(v[5]),
                 10 * DigitValue(v[1]) + DigitValue(v[2]))

\* the date a DD.MM.YYYY string of ten characters names
DateOfString(v) ==
    Date(1000 * DigitValue(v[7]) + 100 * DigitValue(v[8])
           + 10 * DigitValue(v[9]) + DigitValue(v[10]),
         10 * DigitValue(v[4]) + DigitValue(v[5]),
         10 * DigitValue(v[1]) + DigitValue(v[2]))

IsError(text) == StartsWith(text, ErrorPrefix)

Handled == last = "handler"

\* the number of arguments the command table of the CLI gives each command
TableArity(cmd) ==
    IF cmd \in {WAll, WBirthdays} THEN 0
    ELSE IF cmd \in {WPhone, WShowBirthday} THEN 1
    ELSE IF cmd \in {WAdd, WAddBirthday} THEN 2
    ELSE 3

\* the argument lists an error is promised for: a wrong number of
\* arguments, a malformed phone or birthday, a name that is not in the
\* Directory (for the commands that need the contact), an old phone that
\* is not in the Record
BadArguments(cmd, a, b) ==
    \/ Len(a) # TableArity(cmd)
    \/ cmd = WAdd /\ ~TenDecimalDigits(a[2])
    \/ cmd = WChange /\ ~TenDecimalDigits(a[3])
    \/ cmd = WAddBirthday /\ ~PaddedRealDate(a[2])
    \/ cmd \in {WChange, WPhone, WShowBirthday} /\ ~HasKey(b, a[1])
    \/ cmd = WChange /\ HasKey(b, a[1])
         /\ \A i \in 1..Len(Get(b, a[1]).phones) : Get(b, a[1]).phones[i] # a[2]

RecognizedWords ==
    {WAdd, WChange, WPhone, WAll, WAddBirthday, WShowBirthday, WBirthdays,
     WHello, WClose, WExit}

\* C1: every Phone stored in a Record is a string of exactly 10 decimal
\* digits and every stored Birthday is a string the Birthday validator
\* accepts, in every state reachable from an empty Directory.
C1_StoredFieldsValid ==
    \A i \in 1..Len(book) :
        /\ \A j \in 1..Len(book[i].phones) : TenDecimalDigits(book[i].phones[j])
        /\ book[i].birthday # <<>> => BirthdayAccepts(book[i].birthday[1])

\* C2: a recognized command given a bad argument list (wrong number of
\* arguments, malformed phone or birthday, unknown name, unknown old phone)
\* returns a string beginning with "Error: " instead of raising, and the
\* loop awaits the next command; the loop ends only on close or exit.
C2_BadArgumentsReported ==
    /\ Handled =>
          /\ pc = "awaiting"
          /\ BadArguments(command, args, prev) => IsError(out)
    /\ pc \notin {"start", "awaiting"} => pc = "done" /\ last = "quit"

\* C8: a line whose first token, lower-cased, is not a recognized word
\* prints "Unknown command. Try again.", leaves the Directory unchanged and
\* returns to awaiting the next command.
C8_UnknownCommand ==
    (last \in {"quit", "hello", "handler", "unknown"} /\ command \notin RecognizedWords)
        => /\ last = "unknown"
           /\ out = MsgUnknown
           /\ book = prev
           /\ pc = "awaiting"

C8_Witness ==
    /\ last = "unknown"
    /\ command = WList
    /\ args = <<Bob>>
    /\ Len(book) = 2

\* C9: Birthday construction succeeds exactly for zero-padded DD.MM.YYYY
\* strings that denote a real calendar date, and the stored value is then
\* the input string unchanged.
C9_BirthdayFormat ==
    (Handled /\ command = WAddBirthday /\ Len(args) = 2)
        => /\ ~IsError(out) <=> PaddedRealDate(args[2])
           /\ ~IsError(out) => Get(book, args[1]).birthday = <<args[2]>>

\* C10: whenever a handler returns an "Error: ..." string, the Directory is
\* exactly as it was before the command.
C10_ErrorLeavesDirectory == (Handled /\ IsError(out)) => book = prev

\* the number of pairs of the returned list that carry a name
PairsNamed(list, name) == Cardinality({k \in 1..Len(list) : list[k].name = name})

\* the birthday's day and month fall on one of the days today .. today + 7
InWindow(value, tdy) ==
    \E k \in 0..7 :
        /\ AddDays(tdy, k).month = Strptime(value).date.month
        /\ AddDays(tdy, k).day = Strptime(value).date.day

\* C3: for any Directory and any today, get_upcoming_birthdays returns
\* exactly one pair for each Record whose Birthday (any valid calendar
\* date) next occurs at most 7 days after today, and no pair for any other
\* Record.
C3_UpcomingExact ==
    (Handled /\ command = WBirthdays)
        => /\ upcoming.exc = "none"
           /\ \A i \in 1..Len(book) :
                 PairsNamed(upcoming.list, book[i].name) =
                    IF book[i].birthday # <<>> /\ InWindow(book[i].birthday[1], today)
                    THEN 1 ELSE 0

\* the occurrence of a birthday: its day and month in today's year, or in
\* the following year if that date is before today
Occurrence(value, tdy) ==
    LET b == Strptime(value).date
        this_year == Date(tdy.year, b.month, b.day)
    IN IF ToOrdinal(this_year) < ToOrdinal(tdy) THEN Date(tdy.year + 1, b.month, b.day)
       ELSE this_year

\* days since Monday, counted from Monday 10.06.2024
DayOfWeek(dt) == (ToOrdinal(dt) - ToOrdinal(Date(2024, 6, 10))) % 7

\* C4: the date reported in a pair is never a Saturday or Sunday: a
\* Saturday occurrence is reported as the occurrence plus 2 days, a Sunday
\* occurrence plus 1 day, a Monday-to-Friday occurrence as itself.
C4_WeekendShift ==
    \A k \in 1..Len(upcoming.list) :
        LET occ == Occurrence(Get(book, upcoming.list[k].name).birthday[1], today)
            reported == DateOfString(upcoming.list[k].date)
        IN /\ Len(upcoming.list[k].date) = 10
           /\ DayOfWeek(reported) \notin {5, 6}
           /\ DayOfWeek(occ) = 5 => reported = AddDays(occ, 2)
           /\ DayOfWeek(occ) = 6 => reported = AddDays(occ, 1)
           /\ DayOfWeek(occ) < 5 => reported = occ

\* today is Monday 10.06.2024, the birthday 15.06 falls on a Saturday and
\* is reported as Monday 17.06.2024
C4_Witness ==
    /\ Handled
    /\ today = Date(2024, 6, 10)
    /\ Len(book) = 1
    /\ book[1].birthday = <<Strftime(Date(1990, 6, 15))>>
    /\ upcoming.list = <<[name |-> Bob, date |-> Strftime(Date(2024, 6, 17))]>>

\* C5: change_phone(old, new) with old in the list and new valid replaces
\* only the first phone equal to old, keeping the length, the position and
\* every other phone; with old not in the list it fails with the not-found
\* error and the phone list is unchanged.
C5_ChangePhone ==
    (Handled /\ command = WChange /\ Len(args) = 3 /\ HasKey(prev, args[1]))
        => LET before == Get(prev, args[1]).phones
               found == {i \in 1..Len(before) : before[i] = args[2]}
           IN /\ HasKey(book, args[1])
              /\ (found # {} /\ TenDecimalDigits(args[3])) =>
                    LET after == Get(book, args[1]).phones
                        first == CHOOSE i \in found : \A j \in found : i <= j
                    IN /\ ~IsError(out)
                       /\ Len(after) = Len(before)
                       /\ after[first] = args[3]
                       /\ \A j \in 1..Len(before) : j # first => after[j] = before[j]
              /\ found = {} =>
                    /\ out = ErrorPrefix \o MsgOldPhone
                    /\ book = prev

\* the phones were 2.., 1.., 1.. and change 1.. to 3.. replaced the first 1..
C5_Witness ==
    /\ Handled
    /\ command = WChange
    /\ args = <<Bob, P1, P3>>
    /\ HasKey(prev, Bob)
    /\ Get(prev, Bob).phones = <<P2, P1, P1>>
    /\ Get(book, Bob).phones = <<P2, P3, P1>>

C7_SnapshotAtExitOnly ==
    /\ [][(file' # file \/ writes' > writes)
             => /\ last' = "quit"
                /\ command' \in {WClose, WExit}
                /\ pc' = "done"
                /\ writes' = writes + 1
                /\ file' = save_data(book)]_vars
    /\ [][reads' > reads => pc = "start" /\ reads' = 1]_vars
    /\ [](pc = "done" => writes = 1)
    /\ [](pc = "awaiting" => writes = 0 /\ reads = 1)

\* EXIT, typed in capitals, wrote the second session's Directory
C7_Witness ==
    /\ pc = "done"
    /\ command = WExit
    /\ sessions = 2
    /\ writes = 1
    /\ file = save_data(book)
    /\ Len(book) = 2

====
